---------------------------- MODULE Spec2Model ----------------------------
(***************************************************************************)
(* betterjson: a null-safe wrapper (type Json) over a go-simplejson tree.  *)
(*                                                                         *)
(* A wrapper `Json{value *simplejson.Json}` is modelled as a sequence of   *)
(* length 0 (value == nil, the Empty state) or length 1 (value points to a *)
(* simplejson node whose `data` field is the element).  A `data` value     *)
(* (Go interface{}) is a tagged record:                                    *)
(*   [t |-> "nil"]              the nil interface (JSON null)              *)
(*   [t |-> "num", n |-> 1]     a number                                   *)
(*   [t |-> "str", s |-> "x"]   a string                                   *)
(*   [t |-> "bool", b |-> TRUE] a boolean                                  *)
(*   [t |-> "arr", a |-> <<..>>] a []interface{}                           *)
(*   [t |-> "map", m |-> [..]]  a map[string]interface{}                   *)
(*   [t |-> "sj", p |-> d]      a non-nil *simplejson.Json stored as a     *)
(*                              value; d is the data of the node           *)
(*   [t |-> "sjnil"]            a nil *simplejson.Json stored as a value   *)
(* The harness holds one wrapper j; operands of calls are temporaries      *)
(* drawn from bounded sets, so j owns its tree.  ShareSpec, further down, *)
(* keeps Go maps and slices by address, for a view taken with Get.        *)
(***************************************************************************)
EXTENDS Naturals, Sequences, FiniteSets, TLC

VARIABLES j,      \* the wrapper the calls are made on
          last,   \* the last call: its name, inputs, receiver before, results
          adds,   \* since NewJSONArray(): what each TryAdd operand is to
                  \* encode as, in call order
          heap,   \* the Go maps and backing arrays a shared tree is made of
          parent, \* the data of a wrapper whose tree lives in heap
          view    \* the node parent.Get(key) returned, once it has

callVars == <<j, last, adds>>
shareVars == <<heap, parent, view>>
vars == <<j, last, adds, heap, parent, view>>

---------------------------------------------------------------------------
(* Bounds *)

\* Most tree nodes of j after a call, and of a document handed over from
\* outside (a stored *simplejson.Json counts as one node).
MaxNodes == 3
\* Longest path, key list and processor list passed to a call.
MaxPath == 2

\* Object keys, in the ascending byte order sort.Strings gives them.
KeyOrder == <<"a", "b">>
Keys == {KeyOrder[i] : i \in 1..Len(KeyOrder)}

---------------------------------------------------------------------------
(* Data values *)

Nil == [t |-> "nil"]
Num(n) == [t |-> "num", n |-> n]
Str(s) == [t |-> "str", s |-> s]
Bool(b) == [t |-> "bool", b |-> b]
Arr(a) == [t |-> "arr", a |-> a]
Map(m) == [t |-> "map", m |-> m]
SjPtr(d) == [t |-> "sj", p |-> d]
SjNil == [t |-> "sjnil"]

EmptyMap == Map(<<>>)
EmptyArr == Arr(<<>>)

\* m with key k bound to v (Go: m[k] = v).
MapPut(m, k, v) == [x \in (DOMAIN m) \cup {k} |-> IF x = k THEN v ELSE m[x]]
\* m without key k (Go: delete(m, k)).
MapDel(m, k) == [x \in (DOMAIN m) \ {k} |-> m[x]]

---------------------------------------------------------------------------
(* The simplejson node operations the wrapper calls, on the node's data *)

\* (*simplejson.Json).Map succeeds
sjIsMap(d) == d.t = "map"
\* (*simplejson.Json).Array succeeds
sjIsArray(d) == d.t = "arr"

\* (*simplejson.Json).Get: the field's value, or a node holding nil
sjGet(d, key) ==
    IF sjIsMap(d) /\ key \in DOMAIN d.m THEN d.m[key] ELSE Nil

\* (*simplejson.Json).CheckGet: whether the field exists
sjCheckGetOk(d, key) == sjIsMap(d) /\ key \in DOMAIN d.m

\* (*simplejson.Json).GetIndex, index from 0
sjGetIndex(d, index) ==
    IF sjIsArray(d) /\ Len(d.a) > index THEN d.a[index + 1] ELSE Nil

\* (*simplejson.Json).Set: m[key] = val when the node holds a map
sjSet(d, key, val) ==
    IF sjIsMap(d) THEN Map(MapPut(d.m, key, val)) ELSE d

\* (*simplejson.Json).Del
sjDel(d, key) ==
    IF sjIsMap(d) THEN Map(MapDel(d.m, key)) ELSE d

\* (*simplejson.Json).SetPath: empty branch replaces data; otherwise every
\* level that is not a map is replaced by a fresh map on the way down.
RECURSIVE sjSetPath(_, _, _)
sjSetPath(d, branch, val) ==
    IF Len(branch) = 0 THEN val
    ELSE LET m == IF sjIsMap(d) THEN d.m ELSE <<>>
             b == Head(branch)
             sub == IF b \in DOMAIN m THEN m[b] ELSE EmptyMap
         IN  IF Len(branch) = 1
             THEN Map(MapPut(m, b, val))
             ELSE Map(MapPut(m, b, sjSetPath(sub, Tail(branch), val)))

---------------------------------------------------------------------------
(* encoding/json on a data value *)

Digits == <<"0", "1", "2", "3", "4", "5", "6", "7", "8", "9">>
RECURSIVE NumStr(_)
NumStr(n) == IF n < 10 THEN Digits[n + 1]
             ELSE NumStr(n \div 10) \o Digits[(n % 10) + 1]

\* json.Marshal of a string (of letters): the string in double quotes
Quote(s) == "\"" \o s \o "\""

\* the keys of m in ascending order (encoding/json sorts map keys)
SortedKeys(m) == SelectSeq(KeyOrder, LAMBDA k : k \in DOMAIN m)

RECURSIVE JoinWith(_, _)
JoinWith(parts, sep) ==
    IF Len(parts) = 0 THEN ""
    ELSE IF Len(parts) = 1 THEN parts[1]
    ELSE parts[1] \o sep \o JoinWith(Tail(parts), sep)

\* (*simplejson.Json).Encode == json.Marshal(&j.data)
RECURSIVE sjEncode(_)
sjEncode(d) ==
    CASE d.t = "nil" -> "null"
      [] d.t = "sjnil" -> "null"
      [] d.t = "num" -> NumStr(d.n)
      [] d.t = "str" -> Quote(d.s)
      [] d.t = "bool" -> IF d.b THEN "true" ELSE "false"
      [] d.t = "sj" -> sjEncode(d.p)
      [] d.t = "arr" ->
            "[" \o JoinWith([i \in 1..Len(d.a) |-> sjEncode(d.a[i])], ",") \o "]"
      [] d.t = "map" ->
            LET ks == SortedKeys(d.m)
            IN "{" \o JoinWith([i \in 1..Len(ks) |->
                         Quote(ks[i]) \o ":" \o sjEncode(d.m[ks[i]])], ",") \o "}"

---------------------------------------------------------------------------
(* The wrapper: construction and state queries *)

NewEmpty == <<>>
FromNotEmptySimpleJson(d) == <<d>>
NewJSONObject == <<EmptyMap>>
NewJSONArray == <<sjSetPath(EmptyMap, <<>>, EmptyArr)>>

IsEmpty(val) == val = <<>>
\* the data of the node a non-Empty wrapper points to
Data(val) == val[1]

\* A call's outcome: it panicked, or it returned ret.
Panic == [panic |-> TRUE, ret |-> <<>>]
Ret(r) == [panic |-> FALSE, ret |-> r]

\* IsNullJson calls Encode on val.value without a nil check.
IsNullJson(val) ==
    IF IsEmpty(val) THEN Panic
    ELSE Ret(sjEncode(Data(val)) = "null")

\* Get as it would be if a missing key gave Empty, as CheckGet does
GetEmptyOnMiss(val, key) ==
    IF IsEmpty(val) THEN Panic
    ELSE IF ~sjCheckGetOk(Data(val), key) THEN Ret(NewEmpty)
    ELSE Ret(FromNotEmptySimpleJson(sjGet(Data(val), key)))

\* Get calls j.value.Get without a nil check: on a nil node the read of
\* its data field is a nil-pointer dereference.
Get(val, key) ==
    IF IsEmpty(val) THEN Panic
    ELSE Ret(FromNotEmptySimpleJson(sjGet(Data(val), key)))

CheckGet(val, key) ==
    IF IsEmpty(val) THEN val
    ELSE IF ~sjCheckGetOk(Data(val), key) THEN NewEmpty
    ELSE FromNotEmptySimpleJson(sjGet(Data(val), key))


\* GetPath: Get along the branch, starting from the receiver itself
RECURSIVE GetPath(_, _)
GetPath(val, branch) ==
    IF Len(branch) = 0 THEN Ret(val)
    ELSE LET r == Get(val, Head(branch))
         IN  IF r.panic THEN Panic ELSE GetPath(r.ret, Tail(branch))

\* GetIndex calls j.value.GetIndex without a nil check, like Get.
GetIndex(val, index) ==
    IF IsEmpty(val) THEN Panic
    ELSE Ret(FromNotEmptySimpleJson(sjGetIndex(Data(val), index)))

ContainsKey(val, key) ==
    IF IsEmpty(val) THEN FALSE
    ELSE ~IsEmpty(CheckGet(val, key))

ArrayLength(val) ==
    IF IsEmpty(val) \/ ~sjIsArray(Data(val)) THEN 0
    ELSE Len(Data(val).a)

\* Encode: ok is FALSE for the error return
Encode(val) ==
    IF IsEmpty(val) THEN [ok |-> FALSE, s |-> ""]
    ELSE [ok |-> TRUE, s |-> sjEncode(Data(val))]

---------------------------------------------------------------------------
(* Operands: the `val interface{}` argument of Set, SetPath and TryAdd *)

\* a raw Go value (nil included)
RawOp(d) == [k |-> "raw", d |-> d, w |-> <<>>]
\* a *Json wrapper
JsonOp(w) == [k |-> "json", d |-> Nil, w |-> w]
\* a non-nil *simplejson.Json
SjOp(d) == [k |-> "sj", d |-> d, w |-> <<>>]
NoArg == [k |-> "none", d |-> Nil, w |-> <<>>]

\* val.(*Json) succeeds
IsJsonOp(val) == val.k = "json"
\* the interface value itself, for an operand that is not a *Json
AsInterface(val) == IF val.k = "sj" THEN SjPtr(val.d) ELSE val.d
\* a *simplejson.Json field stored as an interface value
ValuePtr(w) == IF IsEmpty(w) THEN SjNil ELSE SjPtr(Data(w))

---------------------------------------------------------------------------
(* Mutation *)

Set(val, key, v) ==
    IF IsEmpty(val) THEN val
    ELSE IF v.k = "raw" /\ v.d = Nil THEN <<sjSet(Data(val), key, Nil)>>
    ELSE IF IsJsonOp(v)
         THEN IF IsEmpty(v.w) THEN <<sjSet(Data(val), key, Nil)>>
              ELSE <<sjSet(Data(val), key, Data(v.w))>>
    ELSE IF v.k = "sj" THEN <<sjSet(Data(val), key, v.d)>>
    ELSE <<sjSet(Data(val), key, v.d)>>

SetPath(val, branch, v) ==
    IF IsEmpty(val)
    THEN IF IsJsonOp(v) THEN v.w
         ELSE <<sjSetPath(EmptyMap, branch, AsInterface(v))>>
    ELSE IF Len(branch) = 0
    THEN IF IsJsonOp(v) THEN v.w
         ELSE <<sjSetPath(Data(val), branch, AsInterface(v))>>
    ELSE IF IsJsonOp(v)
    THEN <<sjSetPath(Data(val), branch, ValuePtr(v.w))>>
    ELSE <<sjSetPath(Data(val), branch, AsInterface(v))>>

SetValue(val, v) == SetPath(val, <<>>, v)

Del(val, key) ==
    IF IsEmpty(val) THEN val
    ELSE <<sjDel(Data(val), key)>>

\* TryAdd as it would be if an Empty Json operand were not appended
TryAddDroppingEmpty(val, v) ==
    IF IsEmpty(val) \/ ~sjIsArray(Data(val)) THEN val
    ELSE IF IsJsonOp(v) /\ IsEmpty(v.w) THEN val
    ELSE LET jsonArray == Data(val).a
             appended ==
                 IF IsJsonOp(v) THEN Append(jsonArray, ValuePtr(v.w))
                 ELSE Append(jsonArray, AsInterface(v))
         IN  SetPath(val, <<>>, RawOp(Arr(appended)))

TryAdd(val, v) ==
    IF IsEmpty(val) \/ ~sjIsArray(Data(val)) THEN val
    ELSE LET jsonArray == Data(val).a
             appended ==
                 IF IsJsonOp(v)
                 THEN IF IsEmpty(v.w) THEN Append(jsonArray, Nil)
                      ELSE Append(jsonArray, ValuePtr(v.w))
                 ELSE Append(jsonArray, AsInterface(v))
         IN  SetPath(val, <<>>, RawOp(Arr(appended)))

---------------------------------------------------------------------------
(* Keyed selection *)

\* The copy loop as it would be if a missing key returned what was copied
\* so far.
RECURSIVE CopyKeysPartial(_, _, _)
CopyKeysPartial(d, keys, result) ==
    IF Len(keys) = 0 THEN FromNotEmptySimpleJson(result)
    ELSE IF ~sjCheckGetOk(d, Head(keys))
         THEN FromNotEmptySimpleJson(result)
         ELSE CopyKeysPartial(d, Tail(keys),
                       sjSet(result, Head(keys), SjPtr(sjGet(d, Head(keys)))))

\* the loop of GetKeyValuesIfAllContains over the keys still to copy
RECURSIVE CopyKeys(_, _, _)
CopyKeys(d, keys, result) ==
    IF Len(keys) = 0 THEN FromNotEmptySimpleJson(result)
    ELSE IF ~sjCheckGetOk(d, Head(keys))
         THEN FromNotEmptySimpleJson(EmptyMap)
         ELSE CopyKeys(d, Tail(keys),
                       sjSet(result, Head(keys), SjPtr(sjGet(d, Head(keys)))))

GetKeyValuesIfAllContains(val, keys) ==
    IF IsEmpty(val) THEN val
    ELSE CopyKeys(Data(val), keys, EmptyMap)

---------------------------------------------------------------------------
(* Structural digest and equality *)

\* `for k := range jsonMap`: Go visits the keys in an unspecified order;
\* ord is the order this run visits them in (a permutation of the keys).
MapRangeKeys(m, ord) == SelectSeq(ord, LAMBDA k : k \in DOMAIN m)

KeyRank(k) == CHOOSE i \in 1..Len(KeyOrder) : KeyOrder[i] = k

\* sort.Strings: insertion of each key at its place in ascending order
RECURSIVE InsertSorted(_, _)
InsertSorted(k, sorted) ==
    IF Len(sorted) = 0 THEN <<k>>
    ELSE IF KeyRank(k) <= KeyRank(Head(sorted)) THEN <<k>> \o sorted
    ELSE <<Head(sorted)>> \o InsertSorted(k, Tail(sorted))

\* sort.Strings left out: the keys stay in the order the map gave them
SortStringsUnordered(keys) == keys

RECURSIVE SortStrings(_)
SortStrings(keys) ==
    IF Len(keys) = 0 THEN <<>>
    ELSE InsertSorted(Head(keys), SortStrings(Tail(keys)))

RECURSIVE DigestJSONForEqual(_, _)
DigestJSONForEqual(val, ord) ==
    IF IsEmpty(val) THEN "nil"
    ELSE IF sjIsArray(Data(val))
    THEN LET jsonArray == Data(val).a
         IN  "[" \o JoinWith([idx \in 1..Len(jsonArray) |->
                        DigestJSONForEqual(GetIndex(val, idx - 1).ret, ord)], ",")
                 \o "]"
    ELSE IF sjIsMap(Data(val))
    THEN LET keys == SortStrings(MapRangeKeys(Data(val).m, ord))
         IN  "{" \o JoinWith([idx \in 1..Len(keys) |->
                        Quote(keys[idx]) \o ":" \o
                        DigestJSONForEqual(Get(val, keys[idx]).ret, ord)], ",")
                 \o "}"
    ELSE LET encoded == Encode(val)
         IN  IF ~encoded.ok THEN "error" ELSE encoded.s

\* other is a wrapper, or NilJson for a nil *Json
NilJson == <<Nil, Nil>>

\* IsSameJSONWith as it would be if an Empty other matched any receiver
IsSameJSONWithAnyReceiver(val, other, ord1, ord2) ==
    IF other = NilJson \/ IsEmpty(other) THEN TRUE
    ELSE DigestJSONForEqual(val, ord1) = DigestJSONForEqual(other, ord2)

IsSameJSONWith(val, other, ord1, ord2) ==
    IF other = NilJson \/ IsEmpty(other) THEN IsEmpty(val)
    ELSE DigestJSONForEqual(val, ord1) = DigestJSONForEqual(other, ord2)

---------------------------------------------------------------------------
(* Typed extraction *)

MustKinds == {"Array", "Map", "String", "StringArray", "Int", "Float64",
              "Bool", "Int64", "Uint64"}

\* the zero value each accessor declares for its default
MustZero(kind) ==
    CASE kind \in {"Int", "Float64", "Int64", "Uint64"} -> Num(0)
      [] kind = "Bool" -> Bool(FALSE)
      [] kind = "String" -> Str("")
      [] OTHER -> Nil

\* the type assertion of the accessor succeeds on data d
sjCoerces(kind, d) ==
    CASE kind \in {"Int", "Float64", "Int64", "Uint64"} -> d.t = "num"
      [] kind = "Bool" -> d.t = "bool"
      [] kind = "String" -> d.t = "str"
      [] kind = "Map" -> d.t = "map"
      [] kind = "Array" -> d.t = "arr"
      [] kind = "StringArray" ->
            d.t = "arr" /\ \A i \in 1..Len(d.a) : d.a[i].t \in {"nil", "str"}

\* (*simplejson.Json).MustX(args...): more than one default panics; the
\* value when the assertion succeeds, else the default
sjMust(kind, d, args) ==
    IF Len(args) > 1 THEN Panic
    ELSE IF sjCoerces(kind, d)
    THEN IF kind = "StringArray"
         THEN Ret(Arr([i \in 1..Len(d.a) |->
                         IF d.a[i].t = "nil" THEN Str("") ELSE d.a[i]]))
         ELSE Ret(d)
    ELSE Ret(IF Len(args) = 1 THEN args[1] ELSE MustZero(kind))

\* Every Must accessor: log.Panicf on an Empty receiver, whatever args holds
MustOn(kind, val, args) ==
    IF IsEmpty(val) THEN Panic
    ELSE sjMust(kind, Data(val), args)

MustArray(val, args) == MustOn("Array", val, args)
MustMap(val, args) == MustOn("Map", val, args)
MustString(val, args) == MustOn("String", val, args)
MustStringArray(val, args) == MustOn("StringArray", val, args)
MustInt(val, args) == MustOn("Int", val, args)
MustFloat64(val, args) == MustOn("Float64", val, args)
MustBool(val, args) == MustOn("Bool", val, args)
MustInt64(val, args) == MustOn("Int64", val, args)
MustUint64(val, args) == MustOn("Uint64", val, args)

Must(kind, val, args) ==
    CASE kind = "Array" -> MustArray(val, args)
      [] kind = "Map" -> MustMap(val, args)
      [] kind = "String" -> MustString(val, args)
      [] kind = "StringArray" -> MustStringArray(val, args)
      [] kind = "Int" -> MustInt(val, args)
      [] kind = "Float64" -> MustFloat64(val, args)
      [] kind = "Bool" -> MustBool(val, args)
      [] kind = "Int64" -> MustInt64(val, args)
      [] kind = "Uint64" -> MustUint64(val, args)

---------------------------------------------------------------------------
(* Keyed transform pipeline *)

\* The JsonKeyValueProcessor functions the harness passes.
\*   "count": resultJSON.SetValue(resultJSON.MustInt()+1); return resultJSON
\*   "pick":  if value.IsEmpty() { return resultJSON }; return value
Processors == {"count", "pick"}

ApplyProcessor(processor, resultJson, key, item) ==
    IF processor = "count"
    THEN LET n == MustInt(resultJson, <<>>)
         IN  IF n.panic THEN Panic
             ELSE Ret(SetValue(resultJson, RawOp(Num(n.ret.n + 1))))
    ELSE Ret(IF IsEmpty(item) THEN resultJson ELSE item)

\* One outcome of TrampolineKeys: the value and error returned, and the
\* processor invocations made, in order.
TrampOut(ret, err, calls, panic) ==
    [ret |-> ret, err |-> err, calls |-> calls, panic |-> panic]

\* The loop as it would be if the item were read with Get, not CheckGet.
RECURSIVE TrampolineLoopWithGet(_, _, _, _, _, _)
TrampolineLoopWithGet(val, keys, processors, i, resultJson, calls) ==
    IF i > Len(keys) THEN TrampOut(resultJson, FALSE, calls, FALSE)
    ELSE LET processor == processors[i]
             key == keys[i]
             item == Get(val, key).ret
             call == [idx |-> i, processor |-> processor, acc |-> resultJson,
                      key |-> key, item |-> item]
             r == ApplyProcessor(processor, resultJson, key, item)
         IN  IF r.panic
             THEN TrampOut(<<>>, FALSE, Append(calls, call), TRUE)
             ELSE TrampolineLoopWithGet(val, keys, processors, i + 1, r.ret,
                                        Append(calls, call))

\* `for i, key := range keys` from index i (from 1) on
RECURSIVE TrampolineLoop(_, _, _, _, _, _)
TrampolineLoop(val, keys, processors, i, resultJson, calls) ==
    IF i > Len(keys) THEN TrampOut(resultJson, FALSE, calls, FALSE)
    ELSE LET processor == processors[i]
             key == keys[i]
             item == CheckGet(val, key)
             call == [idx |-> i, processor |-> processor, acc |-> resultJson,
                      key |-> key, item |-> item]
             r == ApplyProcessor(processor, resultJson, key, item)
         IN  IF r.panic
             THEN TrampOut(<<>>, FALSE, Append(calls, call), TRUE)
             ELSE TrampolineLoop(val, keys, processors, i + 1, r.ret,
                                 Append(calls, call))

\* TrampolineKeys as it would be if it folded the keys that have a processor
\* when there are too few processors.
TrampolineKeysFoldingPrefix(val, keys, processors, initJson) ==
    IF IsEmpty(val) THEN TrampOut(initJson, FALSE, <<>>, FALSE)
    ELSE IF Len(keys) > Len(processors)
    THEN TrampolineLoop(val, SubSeq(keys, 1, Len(processors)), processors, 1,
                        initJson, <<>>)
    ELSE TrampolineLoop(val, keys, processors, 1, initJson, <<>>)

TrampolineKeys(val, keys, processors, initJson) ==
    IF IsEmpty(val) THEN TrampOut(initJson, FALSE, <<>>, FALSE)
    ELSE IF Len(keys) > Len(processors)
    THEN TrampOut(initJson, TRUE, <<>>, FALSE)
    ELSE TrampolineLoop(val, keys, processors, 1, initJson, <<>>)

---------------------------------------------------------------------------
(* Inputs of the calls *)

Scalars == {Nil, Num(1), Str("x")}

RECURSIVE Size(_)
Size(d) ==
    CASE d.t = "arr" -> 1 + (LET F[i \in 0..Len(d.a)] ==
                                   IF i = 0 THEN 0 ELSE F[i - 1] + Size(d.a[i])
                             IN  F[Len(d.a)])
      [] d.t = "map" -> 1 + (LET ks == SortedKeys(d.m)
                                 F[i \in 0..Len(ks)] ==
                                   IF i = 0 THEN 0 ELSE F[i - 1] + Size(d.m[ks[i]])
                             IN  F[Len(ks)])
      [] OTHER -> 1

SeqsUpTo(S, n) == UNION {[1..k -> S] : k \in 0..n}
MapsOver(S) == UNION {[K -> S] : K \in SUBSET Keys}
DocScalars == {Nil, Num(1)}
Level1 == DocScalars \cup {Arr(a) : a \in SeqsUpTo(DocScalars, 2)}
                     \cup {Map(m) : m \in MapsOver(DocScalars)}
Level2 == Level1 \cup {Arr(a) : a \in SeqsUpTo(Level1, 2)}
                 \cup {Map(m) : m \in MapsOver(Level1)}
\* the trees an external parse may hand over
Docs == {d \in Level2 : Size(d) <= MaxNodes}

Paths == SeqsUpTo(Keys, MaxPath)
Orders == {o \in [1..Len(KeyOrder) -> Keys] :
              \A k \in Keys : \E i \in 1..Len(KeyOrder) : o[i] = k}

JsonOperands == {NewEmpty, <<Num(1)>>,
                 <<Map([k \in Keys |-> IF k = "a" THEN Num(1) ELSE Nil])>>}
Operands == {RawOp(d) : d \in Scalars}
            \cup {JsonOp(w) : w \in JsonOperands}
            \cup {SjOp(Num(1))}

Others == {<<d>> : d \in Docs} \cup {NewEmpty, NilJson}

\* Some object inside d has two or more keys: only then does the order
\* in which a map is visited differ between runs.
RECURSIVE HasOrderChoice(_)
HasOrderChoice(d) ==
    CASE d.t = "arr" -> \E i \in 1..Len(d.a) : HasOrderChoice(d.a[i])
      [] d.t = "map" -> \/ Cardinality(DOMAIN d.m) >= 2
                        \/ \E k \in DOMAIN d.m : HasOrderChoice(d.m[k])
      [] OTHER -> FALSE

\* the visiting orders a digest of val may see
OrdersFor(val) ==
    IF val = NilJson \/ IsEmpty(val) THEN {KeyOrder}
    ELSE IF HasOrderChoice(Data(val)) THEN Orders ELSE {KeyOrder}

\* NewEmpty() and NewEmpty().SetValue(0)
InitJsons == {NewEmpty, <<Num(0)>>}

Fits(val) == IF IsEmpty(val) THEN TRUE ELSE Size(Data(val)) <= MaxNodes

---------------------------------------------------------------------------
(* The harness: one call at a time on j *)

\* what an operand added to an array is to encode as: a nil operand and an
\* Empty Json as null, any other as its own encoding
AddedEncoding(v) ==
    IF IsJsonOp(v)
    THEN IF IsEmpty(v.w) THEN "null" ELSE sjEncode(Data(v.w))
    ELSE sjEncode(v.d)

NoCall == [op |-> "none", pre |-> <<>>, key |-> "", path |-> <<>>,
           keys |-> <<>>, arg |-> NoArg, index |-> 0, kind |-> "",
           args |-> <<>>, other |-> <<>>, ord1 |-> KeyOrder, ord2 |-> KeyOrder,
           procs |-> <<>>, init |-> <<>>, ret |-> <<>>, out |-> Nil,
           str |-> "", flag |-> FALSE, panic |-> FALSE,
           err |-> FALSE, calls |-> <<>>]

Call(op) == [NoCall EXCEPT !.op = op, !.pre = j]

NoAdds == [valid |-> FALSE, encs |-> <<>>]

Idle == last.op = "none"

\* no shared tree is built: every wrapper owns what it holds
NoHeap == [maps |-> <<>>, arrs |-> <<>>]
NoView == [taken |-> FALSE]
NothingShared ==
    /\ heap = NoHeap
    /\ parent = Nil
    /\ view = NoView

Init ==
    /\ j = NewEmpty
    /\ last = NoCall
    /\ adds = NoAdds
    /\ NothingShared

\* the caller takes the result and goes on to its next call
Return ==
    /\ UNCHANGED shareVars
    /\ ~Idle
    /\ last' = NoCall
    /\ UNCHANGED <<j, adds>>

CallNewEmpty ==
    /\ UNCHANGED shareVars
    /\ Idle
    /\ j' = NewEmpty
    /\ last' = [Call("NewEmpty") EXCEPT !.ret = NewEmpty]
    /\ adds' = NoAdds

CallNewJSONObject ==
    /\ UNCHANGED shareVars
    /\ Idle
    /\ j' = NewJSONObject
    /\ last' = [Call("NewJSONObject") EXCEPT !.ret = NewJSONObject]
    /\ adds' = NoAdds

CallNewJSONArray ==
    /\ UNCHANGED shareVars
    /\ Idle
    /\ j' = NewJSONArray
    /\ last' = [Call("NewJSONArray") EXCEPT !.ret = NewJSONArray]
    /\ adds' = [valid |-> TRUE, encs |-> <<>>]

CallFromNotEmptySimpleJson ==
    /\ UNCHANGED shareVars
    /\ Idle
    /\ \E d \in Docs :
         /\ j' = FromNotEmptySimpleJson(d)
         /\ last' = [Call("FromNotEmptySimpleJson") EXCEPT !.out = d, !.ret = j']
    /\ adds' = NoAdds

CallGet ==
    /\ UNCHANGED shareVars
    /\ Idle
    /\ \E key \in Keys :
         LET r == Get(j, key)
         IN  last' = [Call("Get") EXCEPT !.key = key, !.ret = r.ret,
                                         !.panic = r.panic]
    /\ UNCHANGED <<j, adds>>

CallCheckGet ==
    /\ UNCHANGED shareVars
    /\ Idle
    /\ \E key \in Keys :
         last' = [Call("CheckGet") EXCEPT !.key = key, !.ret = CheckGet(j, key)]
    /\ UNCHANGED <<j, adds>>

CallGetPath ==
    /\ UNCHANGED shareVars
    /\ Idle
    /\ \E branch \in Paths :
         LET r == GetPath(j, branch)
         IN  last' = [Call("GetPath") EXCEPT !.path = branch, !.ret = r.ret,
                                             !.panic = r.panic]
    /\ UNCHANGED <<j, adds>>

CallGetIndex ==
    /\ UNCHANGED shareVars
    /\ Idle
    /\ \E index \in 0..MaxPath :
         LET r == GetIndex(j, index)
         IN  last' = [Call("GetIndex") EXCEPT !.index = index, !.ret = r.ret,
                                              !.panic = r.panic]
    /\ UNCHANGED <<j, adds>>

CallSet ==
    /\ UNCHANGED shareVars
    /\ Idle
    /\ \E key \in Keys, v \in Operands :
         /\ Fits(Set(j, key, v))
         /\ j' = Set(j, key, v)
         /\ last' = [Call("Set") EXCEPT !.key = key, !.arg = v, !.ret = j']
    /\ adds' = NoAdds

CallSetPath ==
    /\ UNCHANGED shareVars
    /\ Idle
    /\ \E branch \in Paths, v \in Operands :
         /\ Fits(SetPath(j, branch, v))
         /\ j' = SetPath(j, branch, v)
         /\ last' = [Call("SetPath") EXCEPT !.path = branch, !.arg = v, !.ret = j']
    /\ adds' = NoAdds

CallDel ==
    /\ UNCHANGED shareVars
    /\ Idle
    /\ \E key \in Keys :
         /\ j' = Del(j, key)
         /\ last' = [Call("Del") EXCEPT !.key = key, !.ret = j']
    /\ adds' = NoAdds

CallTryAdd ==
    /\ UNCHANGED shareVars
    /\ Idle
    /\ \E v \in Operands :
         /\ Fits(TryAdd(j, v))
         /\ j' = TryAdd(j, v)
         /\ last' = [Call("TryAdd") EXCEPT !.arg = v, !.ret = j']
         /\ adds' = IF adds.valid
                    THEN [adds EXCEPT !.encs = Append(adds.encs, AddedEncoding(v))]
                    ELSE adds

CallSetValue ==
    /\ UNCHANGED shareVars
    /\ Idle
    /\ \E v \in Operands :
         /\ Fits(SetValue(j, v))
         /\ j' = SetValue(j, v)
         /\ last' = [Call("SetValue") EXCEPT !.arg = v, !.ret = j']
    /\ adds' = NoAdds

\* the default a caller passes to each Must accessor
MustDefault(kind) ==
    CASE kind \in {"Int", "Float64", "Int64", "Uint64"} -> Num(5)
      [] kind = "Bool" -> Bool(TRUE)
      [] kind = "String" -> Str("d")
      [] kind = "Map" -> Map([k \in {"a"} |-> Num(5)])
      [] kind = "Array" -> Arr(<<Num(5)>>)
      [] kind = "StringArray" -> Arr(<<Str("d")>>)

CallMust ==
    /\ UNCHANGED shareVars
    /\ Idle
    /\ \E kind \in MustKinds, withDefault \in BOOLEAN :
         LET args == IF withDefault THEN <<MustDefault(kind)>> ELSE <<>>
             r == Must(kind, j, args)
         IN  last' = [Call("Must") EXCEPT !.kind = kind, !.args = args,
                          !.out = IF r.panic THEN Nil ELSE r.ret,
                          !.panic = r.panic]
    /\ UNCHANGED <<j, adds>>

CallDigestJSONForEqual ==
    /\ UNCHANGED shareVars
    /\ Idle
    /\ \E ord \in OrdersFor(j) :
         last' = [Call("DigestJSONForEqual") EXCEPT !.ord1 = ord,
                      !.str = DigestJSONForEqual(j, ord)]
    /\ UNCHANGED <<j, adds>>

\* ord1 and ord2 are the orders this run visits the maps of the receiver
\* and of other in.
CallIsSameJSONWith ==
    /\ UNCHANGED shareVars
    /\ Idle
    /\ \E other \in Others :
       \E ord1 \in OrdersFor(j), ord2 \in OrdersFor(other) :
         last' = [Call("IsSameJSONWith") EXCEPT !.other = other,
                      !.ord1 = ord1, !.ord2 = ord2,
                      !.flag = IsSameJSONWith(j, other, ord1, ord2)]
    /\ UNCHANGED <<j, adds>>

CallGetKeyValuesIfAllContains ==
    /\ UNCHANGED shareVars
    /\ Idle
    /\ \E keys \in Paths :
         last' = [Call("GetKeyValuesIfAllContains") EXCEPT !.keys = keys,
                      !.ret = GetKeyValuesIfAllContains(j, keys)]
    /\ UNCHANGED <<j, adds>>

CallTrampolineKeys ==
    /\ UNCHANGED shareVars
    /\ Idle
    /\ \E keys \in Paths, processors \in SeqsUpTo(Processors, MaxPath),
          initJson \in InitJsons :
         LET r == TrampolineKeys(j, keys, processors, initJson)
         IN  /\ ~r.panic
             /\ last' = [Call("TrampolineKeys") EXCEPT !.keys = keys,
                             !.procs = processors, !.init = initJson,
                             !.ret = r.ret, !.err = r.err, !.calls = r.calls]
    /\ UNCHANGED <<j, adds>>

Next ==
    \/ Return
    \/ CallNewEmpty
    \/ CallNewJSONObject
    \/ CallNewJSONArray
    \/ CallFromNotEmptySimpleJson
    \/ CallGet
    \/ CallCheckGet
    \/ CallGetPath
    \/ CallGetIndex
    \/ CallSet
    \/ CallSetPath
    \/ CallSetValue
    \/ CallDel
    \/ CallTryAdd
    \/ CallMust
    \/ CallDigestJSONForEqual
    \/ CallIsSameJSONWith
    \/ CallGetKeyValuesIfAllContains
    \/ CallTrampolineKeys

Spec == Init /\ [][Next]_vars

---------------------------------------------------------------------------
(* A tree that is shared: Go maps and slices behind node data              *)
(*                                                                         *)
(* Above, a value is its content.  In the program a node's data is an      *)
(* interface{} that holds, for an object, a Go map (a reference to a hash  *)
(* table) and, for an array, a slice header (backing array, len, cap).     *)
(* Get copies that interface{} into a new node, so the new node and the    *)
(* parent's field name the same table or the same backing array.  This     *)
(* part keeps the tables and backing arrays in heap, by address.           *)

\* the most elements a shared array is grown to
MaxElems == 4

MapRef(r) == [t |-> "mapref", r |-> r]
Slice(r, len, cap) == [t |-> "slice", r |-> r, len |-> len, cap |-> cap]

IsMapRef(d) == d.t = "mapref"
IsSlice(d) == d.t = "slice"

\* make(map[string]interface{}) and make([]interface{}, 0): the new heap
\* and the data that names the allocation
NewMap(h) ==
    [heap |-> [h EXCEPT !.maps = Append(@, <<>>)],
     data |-> MapRef(Len(h.maps) + 1)]
MakeSlice(h) ==
    [heap |-> [h EXCEPT !.arrs = Append(@, <<>>)],
     data |-> Slice(Len(h.arrs) + 1, 0, 0)]

\* The content node data d stands for, read through the heap, as Map(),
\* Array() and the encoder read it.
RECURSIVE Load(_, _)
Load(h, d) ==
    IF IsMapRef(d)
    THEN Map([k \in DOMAIN h.maps[d.r] |-> Load(h, h.maps[d.r][k])])
    ELSE IF IsSlice(d)
    THEN Arr([i \in 1..d.len |-> Load(h, h.arrs[d.r][i])])
    ELSE d

\* simplejson Get on node data d: the data of the node it returns, which
\* is the field's interface{} itself (nil when d is no map or lacks key).
heapGet(h, d, key) ==
    IF IsMapRef(d) /\ key \in DOMAIN h.maps[d.r] THEN h.maps[d.r][key] ELSE Nil

\* simplejson Set and Del on node data d: the table d names is written.
heapSet(h, d, key, val) ==
    IF IsMapRef(d) THEN [h EXCEPT !.maps[d.r] = MapPut(@, key, val)] ELSE h
heapDel(h, d, key) ==
    IF IsMapRef(d) THEN [h EXCEPT !.maps[d.r] = MapDel(@, key)] ELSE h

\* The capacity append grows a full slice of capacity cap to.
GrowCap(cap) == IF cap = 0 THEN 1 ELSE 2 * cap

\* Go's append(s, val): within capacity the element is written into the
\* backing array s names; a full slice is copied to a new backing array.
\* Either way the result is a new header; s itself keeps its len.
GoAppend(h, s, val) ==
    IF s.len < s.cap
    THEN [heap |-> [h EXCEPT !.arrs[s.r][s.len + 1] = val],
          data |-> Slice(s.r, s.len + 1, s.cap)]
    ELSE LET old == h.arrs[s.r]
             cap == GrowCap(s.cap)
             new == [i \in 1..cap |-> IF i <= s.len THEN old[i]
                                      ELSE IF i = s.len + 1 THEN val ELSE Nil]
         IN  [heap |-> [h EXCEPT !.arrs = Append(@, new)],
              data |-> Slice(Len(h.arrs) + 1, s.len + 1, cap)]

\* TryAdd on a node with data d and a raw operand: the appended slice is
\* stored with SetPath([]string{}, jsonArray), which assigns the node's
\* data; a node holding no array is left alone.
heapTryAdd(h, d, val) ==
    IF IsSlice(d) THEN GoAppend(h, d, val) ELSE [heap |-> h, data |-> d]

\* NewJSONObject().Set(keys[1], 1).Set(keys[2], 1)... : a new table filled
RECURSIVE ObjectOf(_, _)
ObjectOf(h, keys) ==
    IF keys = <<>> THEN NewMap(h)
    ELSE LET r == ObjectOf(h, SubSeq(keys, 1, Len(keys) - 1))
         IN  [heap |-> heapSet(r.heap, r.data, keys[Len(keys)], Num(1)),
              data |-> r.data]

\* NewJSONArray().TryAdd(1)... with n calls of TryAdd, all on one node
RECURSIVE ArrayOf(_, _)
ArrayOf(h, n) ==
    IF n = 0 THEN MakeSlice(h)
    ELSE LET r == ArrayOf(h, n - 1) IN heapTryAdd(r.heap, r.data, Num(1))

\* the raw values written through the view
ViewValues == {Nil, Num(2)}

\* parent = NewJSONObject(), nothing taken from it yet
ShareInit ==
    /\ j = NewEmpty
    /\ last = NoCall
    /\ adds = NoAdds
    /\ heap = NewMap(NoHeap).heap
    /\ parent = NewMap(NoHeap).data
    /\ view = NoView

FieldUnset(key) == ~view.taken /\ key \notin DOMAIN heap.maps[parent.r]

\* parent.Set(key, 1)
ParentSetRaw ==
    /\ UNCHANGED callVars
    /\ \E key \in Keys :
         /\ FieldUnset(key)
         /\ heap' = heapSet(heap, parent, key, Num(1))
    /\ UNCHANGED <<parent, view>>

\* parent.Set(key, NewJSONObject().Set(...)): Set stores the operand's
\* Interface(), the operand's own map
ParentSetObject ==
    /\ UNCHANGED callVars
    /\ \E key \in Keys, keys \in SeqsUpTo(Keys, 1) :
         /\ FieldUnset(key)
         /\ LET r == ObjectOf(heap, keys)
            IN  heap' = heapSet(r.heap, parent, key, r.data)
    /\ UNCHANGED <<parent, view>>

\* parent.Set(key, NewJSONArray().TryAdd(1)...): Set stores the operand's
\* Interface(), the operand's slice
ParentSetArray ==
    /\ UNCHANGED callVars
    /\ \E key \in Keys, n \in 0..(MaxElems - 1) :
         /\ FieldUnset(key)
         /\ LET r == ArrayOf(heap, n)
            IN  heap' = heapSet(r.heap, parent, key, r.data)
    /\ UNCHANGED <<parent, view>>

\* c := parent.Get(key)
ViewGet ==
    /\ UNCHANGED callVars
    /\ ~view.taken
    /\ \E key \in Keys :
         view' = [taken |-> TRUE, key |-> key,
                  data |-> heapGet(heap, parent, key)]
    /\ UNCHANGED <<heap, parent>>

\* c.Set(key, val), val a raw value
ViewSet ==
    /\ UNCHANGED callVars
    /\ view.taken
    /\ \E key \in Keys, val \in ViewValues :
         heap' = heapSet(heap, view.data, key, val)
    /\ UNCHANGED <<parent, view>>

\* c.Del(key)
ViewDel ==
    /\ UNCHANGED callVars
    /\ view.taken
    /\ \E key \in Keys : heap' = heapDel(heap, view.data, key)
    /\ UNCHANGED <<parent, view>>

\* c.TryAdd(val), val a raw value
ViewTryAdd ==
    /\ UNCHANGED callVars
    /\ view.taken
    /\ IF IsSlice(view.data) THEN view.data.len < MaxElems ELSE TRUE
    /\ \E val \in ViewValues :
         LET r == heapTryAdd(heap, view.data, val)
         IN  /\ heap' = r.heap
             /\ view' = [view EXCEPT !.data = r.data]
    /\ UNCHANGED parent

ShareNext ==
    \/ ParentSetRaw
    \/ ParentSetObject
    \/ ParentSetArray
    \/ ViewGet
    \/ ViewSet
    \/ ViewDel
    \/ ViewTryAdd

ShareSpec == ShareInit /\ [][ShareNext]_vars

---------------------------------------------------------------------------
(* What the claims are stated in *)

\* The JSON document a data value stands for: stored node pointers are
\* followed (a nil one is null), objects are key-to-value maps, arrays are
\* sequences.
RECURSIVE Norm(_)
Norm(d) ==
    CASE d.t = "sjnil" -> Nil
      [] d.t = "sj" -> Norm(d.p)
      [] d.t = "arr" -> Arr([i \in 1..Len(d.a) |-> Norm(d.a[i])])
      [] d.t = "map" -> Map([k \in DOMAIN d.m |-> Norm(d.m[k])])
      [] OTHER -> d

\* a non-Empty wrapper holds JSON null
HoldsNull(val) == ~IsEmpty(val) /\ Norm(Data(val)) = Nil

HoldsObject(val) == ~IsEmpty(val) /\ sjIsMap(Data(val))

\* C1: on a receiver holding an object, for an absent key Get returns a
\* non-Empty value on which IsNullJson is true (it encodes to `null`) and
\* CheckGet returns Empty; for a present key both return a non-Empty value
\* holding the field's value.
C1_GetAndCheckGetOnObject ==
    (last.op \in {"Get", "CheckGet"} /\ HoldsObject(last.pre)) =>
        LET o == Data(last.pre).m
        IN  IF last.key \notin DOMAIN o
            THEN IF last.op = "Get"
                 THEN /\ ~last.panic
                      /\ ~IsEmpty(last.ret)
                      /\ IsNullJson(last.ret) = Ret(TRUE)
                      /\ Encode(last.ret) = [ok |-> TRUE, s |-> "null"]
                 ELSE IsEmpty(last.ret)
            ELSE /\ ~last.panic
                 /\ ~IsEmpty(last.ret)
                 /\ Data(last.ret) = o[last.key]

\* Get was called with an absent key on an object that has another field.
C1_Witness ==
    /\ last.op = "Get"
    /\ HoldsObject(last.pre)
    /\ last.key \notin DOMAIN Data(last.pre).m
    /\ DOMAIN Data(last.pre).m # {}

\* C2: for non-Empty a and b the digests are equal exactly when a and b
\* stand for the same document (objects as unordered maps, arrays as
\* ordered sequences), whatever order each run visits the object keys in;
\* and one value's digest is the same under every visiting order.
\* (On two non-Empty values IsSameJSONWith returns whether the two digests
\* it computes are equal.)
C2_DigestIffStructurallyEqual ==
    /\ (last.op = "IsSameJSONWith" /\ ~IsEmpty(last.pre)
          /\ last.other # NilJson /\ ~IsEmpty(last.other)) =>
         (last.flag <=> (Norm(Data(last.pre)) = Norm(Data(last.other))))
    /\ last.op = "DigestJSONForEqual" =>
         \A ord \in Orders : last.str = DigestJSONForEqual(last.pre, ord)

\* Two objects with two fields each were digested under different visiting
\* orders and the digests agree.
C2_Witness ==
    /\ last.op = "IsSameJSONWith"
    /\ HoldsObject(last.pre)
    /\ Cardinality(DOMAIN Data(last.pre).m) = 2
    /\ last.ord1 # last.ord2
    /\ last.other # NilJson
    /\ last.flag

\* C3: IsSameJSONWith is reflexive and symmetric over Empty, null-holding
\* and concrete receivers, a nil other counts as Empty, and two values with
\* the same content built independently are the same.  (Every value j
\* takes is there between two calls, so reflexivity is stated there.)
C3_IsSameReflexiveSymmetric ==
    /\ Idle => \A ord1 \in OrdersFor(j), ord2 \in OrdersFor(j) :
                  IsSameJSONWith(j, j, ord1, ord2)
    /\ last.op = "IsSameJSONWith" =>
         /\ last.other = NilJson => (last.flag = IsEmpty(last.pre))
         /\ last.other # NilJson =>
              /\ last.flag = IsSameJSONWith(last.other, last.pre,
                                             last.ord2, last.ord1)
              /\ (~IsEmpty(last.pre) /\ ~IsEmpty(last.other)
                    /\ Norm(Data(last.pre)) = Norm(Data(last.other)))
                   => last.flag
              /\ (IsEmpty(last.pre) /\ IsEmpty(last.other)) => last.flag

\* A receiver holding an object was compared with an Empty value and found
\* not the same.
C3_Witness ==
    /\ last.op = "IsSameJSONWith"
    /\ HoldsObject(last.pre)
    /\ last.other = NewEmpty
    /\ ~last.flag

\* C4 (as claimed): Get completes on every receiver state and returns a
\* non-Empty value, holding JSON null unless the receiver is an object with
\* the key; GetPath of any length completes from any receiver state.
C4_GetTotal ==
    /\ last.op = "Get" =>
         /\ ~last.panic
         /\ ~IsEmpty(last.ret)
         /\ (~HoldsObject(last.pre) \/ last.key \notin DOMAIN Data(last.pre).m)
              => HoldsNull(last.ret)
    /\ last.op = "GetPath" => ~last.panic

\* What the code does give: Get and GetPath are total on every non-Empty
\* receiver, and a miss yields a non-Empty value holding null.
C4_GetTotalOnNonEmpty ==
    /\ (last.op = "Get" /\ ~IsEmpty(last.pre)) =>
         /\ ~last.panic
         /\ ~IsEmpty(last.ret)
         /\ (~HoldsObject(last.pre) \/ last.key \notin DOMAIN Data(last.pre).m)
              => HoldsNull(last.ret)
    /\ (last.op = "GetPath" /\ ~IsEmpty(last.pre)) =>
         /\ ~last.panic
         /\ ~IsEmpty(last.ret)
    /\ (last.op \in {"Get", "GetPath"} /\ IsEmpty(last.pre)) =>
         (last.panic <=> (last.op = "Get" \/ last.path # <<>>))

\* C5 (as claimed): a Must accessor on an Empty receiver terminates
\* abnormally without a default and returns the default when given one.
C5_MustOnEmpty ==
    (last.op = "Must" /\ IsEmpty(last.pre)) =>
        IF last.args = <<>>
        THEN last.panic
        ELSE ~last.panic /\ last.out = last.args[1]

\* the wrapper an operand stands for
OperandJson(v) == IF IsJsonOp(v) THEN v.w ELSE <<v.d>>

\* C6 (as claimed): after SetPath(path, v) with a non-empty path the
\* receiver holds an object, every intermediate level of the path is an
\* object and GetPath(path) has the digest of v, from an Empty receiver as
\* from an object and for a raw v as for a wrapper; with an empty path the
\* receiver's whole value is v.  (Stated for a v that holds a value: an
\* Empty wrapper has the digest `nil`, which no stored value has.)
C6_SetPathThenGetPath ==
    /\ (last.op = "SetPath" /\ last.path # <<>>
          /\ (IsEmpty(last.pre) \/ HoldsObject(last.pre))
          /\ ~IsEmpty(OperandJson(last.arg))) =>
         /\ HoldsObject(j)
         /\ \A i \in 1..(Len(last.path) - 1) :
              HoldsObject(GetPath(j, SubSeq(last.path, 1, i)).ret)
         /\ \A ord \in Orders :
              DigestJSONForEqual(GetPath(j, last.path).ret, ord)
                = DigestJSONForEqual(OperandJson(last.arg), ord)
    /\ (last.op \in {"SetPath", "SetValue"} /\ last.path = <<>>) =>
         \A ord \in Orders :
              DigestJSONForEqual(j, ord)
                = DigestJSONForEqual(OperandJson(last.arg), ord)

HoldsArray(val) == ~IsEmpty(val) /\ sjIsArray(Data(val))

\* C7: after n TryAdd calls on NewJSONArray() the array has length n and
\* encodes to the added values in call order, a nil operand and an Empty
\* Json operand each as `null`; TryAdd appends one element when the receiver
\* holds an array, and on an Empty or non-array receiver it returns the
\* receiver with its value unchanged.
C7_TryAddAppends ==
    /\ adds.valid =>
         /\ ArrayLength(j) = Len(adds.encs)
         /\ Encode(j) = [ok |-> TRUE,
                         s |-> "[" \o JoinWith(adds.encs, ",") \o "]"]
    /\ last.op = "TryAdd" =>
         IF HoldsArray(last.pre)
         THEN /\ ArrayLength(j) = ArrayLength(last.pre) + 1
              /\ last.ret = j
         ELSE /\ j = last.pre
              /\ last.ret = last.pre

\* Two TryAdd calls on NewJSONArray(): a nil operand, then an Empty Json.
C7_Witness ==
    /\ last.op = "TryAdd"
    /\ adds.valid
    /\ last.pre = <<Arr(<<Nil>>)>>
    /\ last.arg = JsonOp(NewEmpty)
    /\ adds.encs = <<"null", "null">>
    /\ Encode(j) = [ok |-> TRUE, s |-> "[null,null]"]

\* the set of the keys in a key list
KeySet(keys) == {keys[i] : i \in 1..Len(keys)}

\* C8 (as claimed): GetKeyValuesIfAllContains never returns Empty: an object
\* with exactly the requested keys and the receiver's values when all are
\* present, an empty object when one is missing; the receiver is unchanged.
C8_NeverReturnsEmpty ==
    last.op = "GetKeyValuesIfAllContains" =>
        /\ ~IsEmpty(last.ret)
        /\ j = last.pre

\* C8 (amended): on a non-Empty receiver the result is never Empty: when
\* every requested key is a field it is a new object whose key set is the
\* requested keys, each with the receiver's value; when one is missing it is
\* an empty object, so ContainsKey is false for every requested key.  On an
\* Empty receiver the result is Empty.  The receiver is unchanged.
C8_KeyValuesOnNonEmpty ==
    last.op = "GetKeyValuesIfAllContains" =>
        /\ j = last.pre
        /\ IsEmpty(last.pre) => IsEmpty(last.ret)
        /\ ~IsEmpty(last.pre) =>
             /\ HoldsObject(last.ret)
             /\ IF HoldsObject(last.pre)
                   /\ KeySet(last.keys) \subseteq DOMAIN Data(last.pre).m
                THEN /\ DOMAIN Data(last.ret).m = KeySet(last.keys)
                     /\ \A k \in KeySet(last.keys) :
                          /\ ContainsKey(last.ret, k)
                          /\ Norm(Data(last.ret).m[k]) = Norm(Data(last.pre).m[k])
                ELSE /\ DOMAIN Data(last.ret).m = {}
                     /\ \A k \in KeySet(last.keys) : ~ContainsKey(last.ret, k)

\* One requested key is a field of the receiver and another is not.
C8_Witness ==
    /\ last.op = "GetKeyValuesIfAllContains"
    /\ HoldsObject(last.pre)
    /\ KeySet(last.keys) \cap DOMAIN Data(last.pre).m # {}
    /\ KeySet(last.keys) \ DOMAIN Data(last.pre).m # {}
    /\ last.ret = NewJSONObject

\* C9: on a non-Empty receiver with no more keys than processors,
\* processors[i] is invoked once for each i up to Len(keys), in index order,
\* with the accumulator so far, keys[i] and CheckGet(keys[i]), starting from
\* the initial value; processors beyond Len(keys) are not invoked; the last
\* accumulator is returned with no error.
C9_TrampolineLeftFold ==
    (last.op = "TrampolineKeys" /\ ~IsEmpty(last.pre)
        /\ Len(last.keys) <= Len(last.procs)) =>
        LET n == Len(last.keys)
            after(i) == ApplyProcessor(last.procs[i], last.calls[i].acc,
                                       last.keys[i],
                                       CheckGet(last.pre, last.keys[i])).ret
        IN  /\ ~last.err
            /\ Len(last.calls) = n
            /\ \A i \in 1..n :
                 /\ last.calls[i].idx = i
                 /\ last.calls[i].processor = last.procs[i]
                 /\ last.calls[i].key = last.keys[i]
                 /\ last.calls[i].item = CheckGet(last.pre, last.keys[i])
                 /\ last.calls[i].acc = IF i = 1 THEN last.init ELSE after(i - 1)
            /\ last.ret = IF n = 0 THEN last.init ELSE after(n)

\* One key that is not a field, folded by the counting processor from 0
\* with a second processor left over.
C9_Witness ==
    /\ last.op = "TrampolineKeys"
    /\ HoldsObject(last.pre)
    /\ Len(last.keys) = 1
    /\ last.keys[1] \notin DOMAIN Data(last.pre).m
    /\ last.procs = <<"count", "count">>
    /\ last.init = <<Num(0)>>
    /\ Len(last.calls) = 1
    /\ last.ret = <<Num(1)>>

\* C10 (as claimed): with fewer processors than keys, whatever the
\* receiver's state, an error is reported, no processor is invoked and the
\* initial value is handed back.
C10_ArityErrorAlways ==
    (last.op = "TrampolineKeys" /\ Len(last.keys) > Len(last.procs)) =>
        /\ last.err
        /\ last.calls = <<>>
        /\ last.ret = last.init

\* C10 (amended): with fewer processors than keys, no processor is invoked
\* and the initial value is handed back; an error is reported exactly when
\* the receiver is not Empty.
C10_ArityErrorOnNonEmpty ==
    (last.op = "TrampolineKeys" /\ Len(last.keys) > Len(last.procs)) =>
        /\ last.err <=> ~IsEmpty(last.pre)
        /\ last.calls = <<>>
        /\ last.ret = last.init

\* Two keys and one processor on a receiver holding an object.
C10_Witness ==
    /\ last.op = "TrampolineKeys"
    /\ HoldsObject(last.pre)
    /\ Len(last.keys) = 2
    /\ Len(last.procs) = 1
    /\ last.err

---------------------------------------------------------------------------
\* What reading field view.key again through the parent returns, and what
\* the view holds, as wrappers of their content.
ParentField == FromNotEmptySimpleJson(Load(heap, heapGet(heap, parent, view.key)))
ViewContent == FromNotEmptySimpleJson(Load(heap, view.data))

ViewOfObject == view.taken /\ IsMapRef(view.data)
ViewOfArray == view.taken /\ IsSlice(view.data)

\* C11: for c = p.Get(k) with field k a nested object or a nested array,
\* after any Set, Del and TryAdd made through c, p.Get(k) and c have the
\* same digest, under every order the maps are visited in.
C11_ViewAliasesParent ==
    (ViewOfObject \/ ViewOfArray) =>
        \A ord1 \in Orders, ord2 \in Orders :
            DigestJSONForEqual(ParentField, ord1)
                = DigestJSONForEqual(ViewContent, ord2)

\* The part of C11 about objects: Set and Del through a view of an object
\* field are read back through the parent.
C11_ObjectViewAliasesParent ==
    ViewOfObject =>
        \A ord1 \in Orders, ord2 \in Orders :
            DigestJSONForEqual(ParentField, ord1)
                = DigestJSONForEqual(ViewContent, ord2)

\* A view of an object field after Set through it gave it both keys.
C11_ObjectWitness ==
    /\ ViewOfObject
    /\ DigestJSONForEqual(ParentField, KeyOrder) = "{\"a\":2,\"b\":null}"

\* What the parent reads of an array field is what the field held when the
\* view was taken: TryAdd through the view lengthens the view alone.
C11_ParentKeepsArray ==
    ViewOfArray =>
        /\ heapGet(heap, parent, view.key).len <= view.data.len
        /\ \A i \in 1..heapGet(heap, parent, view.key).len :
               Data(ParentField).a[i] = Num(1)

\* A view of an array field that holds an element the parent does not read.
C11_ArrayWitness ==
    /\ ViewOfArray
    /\ DigestJSONForEqual(ParentField, KeyOrder) = "[]"
    /\ DigestJSONForEqual(ViewContent, KeyOrder) = "[2]"

=============================================================================
